---- MODULE Spec2Model ----
(***************************************************************************)
(* A model of fmu-dataio's metadata engine: the case initializer           *)
(* (InitializeCase), the settings handling of ExportData, the content      *)
(* validator (_check_content), the fmu block validator (FMUAttributes),    *)
(* the aggregation merger (AggregatedData), the file block validator       *)
(* (File), the naming of the metadata file, the extension lookup of the    *)
(* object data provider and the writes of one ExportData.export() call.    *)
(*                                                                         *)
(* Each component has its own variables and its own specification; a       *)
(* specification leaves the variables of the other components at their     *)
(* initial values.                                                         *)
(***************************************************************************)
EXTENDS Integers, Sequences, FiniteSets, TLC

VARIABLES
    \* ---- InitializeCase (dataio.py 806-934) ----
    caseDir,        \* <casepath>/share/metadata exists on disk
    caseFile,       \* fmu_case.yml on disk: NoFile or the document it holds
    everWritten,    \* history: the case UUIDs ever written to fmu_case.yml
    uuidCounter,    \* uuid.uuid4(): the number of UUIDs drawn so far
    ic,             \* per process: its InitializeCase instance and call position
    \* ---- _check_content (dataio.py 94-141) ----
    cvIn,           \* the content declaration handed to the validator
    cvOut,          \* what the validator returned or raised; NotRun before the call
    \* ---- FMUAttributes (meta.py 476-514) ----
    fmuIn,          \* the raw fmu block handed to schema validation
    fmuOut,         \* "not_run", "ok" or "ValidationError"
    \* ---- AggregatedData (dataio.py 953-1285) ----
    agg,            \* the instance: aggregation_id, source_metadata, operation,
                    \* _metadata
    aggLast,        \* the last generate_metadata call: how it ended, the
                    \* realization UUIDs it collected, whether it derived the id
    \* ---- ExportData settings (dataio.py 427-572, 669-752) ----
    epc,            \* "new" before ExportData(...), "ready" once constructed,
                    \* "failed" when __post_init__ raised
    ed,             \* the instance's attributes, by name
    edLast,         \* the last operation on the instance and how it ended
    cwd,            \* the current directory of the process
    insideRms,      \* ExportData._inside_rms or INSIDE_RMS
    \* ---- AggregatedData._construct_filename (dataio.py 1014-1113) ----
    fnIn,           \* the template's paths and realization name, and the
                    \* instance's casepath, name, tagname and operation
    fnOut,          \* how the call ended and the paths it made
    \* ---- the documents generate_metadata returns (dataio.py 723, 921, 1233) ----
    heap,           \* the dict objects alive, by reference
    inst,           \* per class: the reference in self._metadata, NoRef before
    ret,            \* per class: the reference the caller got back, NoRef before
    disk,           \* per class: the document in the metadata file, NoDoc before
    \* ---- the file block (meta.py 70-112) ----
    fileIn,         \* the raw file block handed to schema validation
    fileOut,        \* "not_run", "ok" or "ValidationError"
    \* ---- the metadata file beside a data file (dataio.py 754-776, 1268-1280) ----
    sideIn,         \* the class, the data file's path and the metadata format of an export
    sideOut,        \* the path the metadata file was written to, <<>> before
    \* ---- extension lookup ----
    extIn,          \* the lookup's arguments (format, subtype, table of allowed formats)
    extOut,         \* what the lookup returned or raised
    \* ---- export, write by write ----
    xp,             \* the running export() call, its number, its position and what it decided
    written         \* per path of the export, the number of the call that wrote it last

caseVars == <<caseDir, caseFile, everWritten, uuidCounter, ic>>
contentVars == <<cvIn, cvOut>>
fmuVars == <<fmuIn, fmuOut>>
aggVars == <<agg, aggLast>>
edVars == <<epc, ed, edLast, cwd, insideRms>>
fnVars == <<fnIn, fnOut>>
copyVars == <<heap, inst, ret, disk>>
fileVars == <<fileIn, fileOut>>
sidecarVars == <<sideIn, sideOut>>
extVars == <<extIn, extOut>>
stepsVars == <<xp, written>>

\* the variables of the other components, which a component's actions leave alone
notCaseVars == <<contentVars, fmuVars, aggVars, edVars, fnVars, copyVars, fileVars, sidecarVars, extVars, stepsVars>>
notContentVars == <<caseVars, fmuVars, aggVars, edVars, fnVars, copyVars, fileVars, sidecarVars, extVars, stepsVars>>
notFmuVars == <<caseVars, contentVars, aggVars, edVars, fnVars, copyVars, fileVars, sidecarVars, extVars, stepsVars>>
notAggVars == <<caseVars, contentVars, fmuVars, edVars, fnVars, copyVars, fileVars, sidecarVars, extVars, stepsVars>>
notEdVars == <<caseVars, contentVars, fmuVars, aggVars, fnVars, copyVars, fileVars, sidecarVars, extVars, stepsVars>>
notFnVars == <<caseVars, contentVars, fmuVars, aggVars, edVars, copyVars, fileVars, sidecarVars, extVars, stepsVars>>
notCopyVars == <<caseVars, contentVars, fmuVars, aggVars, edVars, fnVars, fileVars, sidecarVars, extVars, stepsVars>>
notFileVars == <<caseVars, contentVars, fmuVars, aggVars, edVars, fnVars, copyVars, sidecarVars, extVars, stepsVars>>
notSidecarVars == <<caseVars, contentVars, fmuVars, aggVars, edVars, fnVars, copyVars, fileVars, extVars, stepsVars>>
notExtVars == <<caseVars, contentVars, fmuVars, aggVars, edVars, fnVars, copyVars, fileVars, sidecarVars, stepsVars>>
notStepsVars == <<caseVars, contentVars, fmuVars, aggVars, edVars, fnVars, copyVars, fileVars, sidecarVars, extVars>>

vars == <<caseDir, caseFile, everWritten, uuidCounter, ic, cvIn, cvOut,
          fmuIn, fmuOut, agg, aggLast, epc, ed, edLast,
          cwd, insideRms, fnIn, fnOut, heap, inst, ret, disk,
          fileIn, fileOut,
          sideIn, sideOut,
          extIn, extOut,
          xp, written>>

(***************************************************************************)
(* Bounds                                                                  *)
(***************************************************************************)
\* public calls (generate_metadata or export) one InitializeCase process makes
MaxCaseCalls == 2
\* keys of a content declaration given as a mapping
MaxContentKeys == 2
\* source documents handed to one aggregation
MaxSources == 2
\* keyword overrides handed to one generate_metadata() or export() call
MaxKwargs == 2
\* entries of the settings file the environment points to
MaxEnvKeys == 1
\* the dict objects that can be alive at once
MaxDocs == 8

\* the export() calls made one after the other on one data file
MaxExportCalls == 2

(***************************************************************************)
(* InitializeCase                                                          *)
(***************************************************************************)
\* the processes that initialize the same case root, one instance each
Procs == {"p1", "p2"}

\* a mapping as Python sees it: empty ({}), or a case document with its
\* fmu.case.uuid
EmptyDict == [nonempty |-> FALSE, uuid |-> 0]
CaseDoc(u) == [nonempty |-> TRUE, uuid |-> u]

\* fmu_case.yml is absent
NoFile == [exists |-> FALSE, doc |-> EmptyDict]
FileWith(d) == [exists |-> TRUE, doc |-> d]

\* the record of one export() call, kept to state claims about it
NoExport == [done |-> FALSE, start |-> NoFile, ret |-> EmptyDict,
             warned |-> FALSE, wrote |-> FALSE]

\* InitializeCase after __post_init__ (config valid), no call made yet
NewInstance ==
    [pc |-> "idle", _metadata |-> EmptyDict, ret |-> EmptyDict,
     warned |-> FALSE, calls |-> 0, gmcalls |-> 0, exp |-> NoExport]

\* _establish_metadata_files with the existence check dropped
_establish_metadata_files_nocheck(file) == TRUE

\* InitializeCase._establish_metadata_files: True iff fmu_case.yml is absent
\* (the directory is created by the action that calls it)
_establish_metadata_files(file) == ~file.exists

\* InitializeCase._case_uuid: a fresh uuid4
_case_uuid == uuidCounter + 1

\* generate_metadata that hands out the document it already assembled
IC_generate_metadata_cached(i, file) ==
    IF ~_establish_metadata_files(file)
    THEN [i EXCEPT !.ret = EmptyDict, !.warned = TRUE]
    ELSE IF i._metadata.nonempty
    THEN [i EXCEPT !.ret = i._metadata, !.warned = FALSE]
    ELSE [i EXCEPT !._metadata = CaseDoc(_case_uuid),
                   !.ret = CaseDoc(_case_uuid), !.warned = FALSE]

\* InitializeCase.generate_metadata on instance i: the instance after the call.
\* Returns {} with a warning when the file exists, else a document with a
\* fresh case UUID that is also stored in _metadata.
IC_generate_metadata(i, file) ==
    IF ~_establish_metadata_files(file)
    THEN [i EXCEPT !.ret = EmptyDict, !.warned = TRUE]
    ELSE [i EXCEPT !._metadata = CaseDoc(_case_uuid),
                   !.ret = CaseDoc(_case_uuid), !.warned = FALSE]

\* the uuid4 counter after a generate_metadata call
UuidAfter(file) ==
    IF _establish_metadata_files(file) THEN uuidCounter + 1 ELSE uuidCounter

\* _utils.export_metadata_file: the file is (re)written with the document
export_metadata_file(doc) == FileWith(doc)

\* a direct call of the public generate_metadata()
ICGenerateMetadata(p) ==
    /\ ic[p].pc = "idle"
    /\ ic[p].calls < MaxCaseCalls
    /\ caseDir' = TRUE
    /\ uuidCounter' = UuidAfter(caseFile)
    /\ ic' = [ic EXCEPT ![p] =
                [IC_generate_metadata(ic[p], caseFile) EXCEPT
                    !.calls = @ + 1, !.gmcalls = @ + 1]]
    /\ UNCHANGED <<caseFile, everWritten, notCaseVars>>

\* export(), first half: the generate_metadata() call and the test of its result
ICExportBegin(p) ==
    /\ ic[p].pc = "idle"
    /\ ic[p].calls < MaxCaseCalls
    /\ caseDir' = TRUE
    /\ uuidCounter' = UuidAfter(caseFile)
    /\ LET i == IC_generate_metadata(ic[p], caseFile)
           e == [done |-> ~i.ret.nonempty, start |-> caseFile, ret |-> i.ret,
                 warned |-> i.warned, wrote |-> FALSE]
       IN ic' = [ic EXCEPT ![p] =
                    [i EXCEPT !.calls = @ + 1, !.exp = e,
                              !.pc = IF i.ret.nonempty THEN "write" ELSE "idle"]]
    /\ UNCHANGED <<caseFile, everWritten, notCaseVars>>

\* export(), second half: export_metadata_file(self._metafile, self._metadata)
ICExportWrite(p) ==
    /\ ic[p].pc = "write"
    /\ caseFile' = export_metadata_file(ic[p]._metadata)
    /\ everWritten' = everWritten \cup {ic[p]._metadata.uuid}
    /\ ic' = [ic EXCEPT ![p].pc = "idle", ![p].exp.done = TRUE,
                        ![p].exp.wrote = TRUE]
    /\ UNCHANGED <<caseDir, uuidCounter, notCaseVars>>

CaseInit ==
    /\ caseDir \in BOOLEAN
    /\ caseFile = NoFile
    /\ everWritten = {}
    /\ uuidCounter = 0
    /\ ic = [p \in Procs |-> NewInstance]

\* no process is inside a call
Quiet == \A q \in Procs : ic[q].pc = "idle"

\* processes racing on one case root: their steps interleave freely
CaseNext ==
    \E p \in Procs :
        \/ ICGenerateMetadata(p)
        \/ ICExportBegin(p)
        \/ ICExportWrite(p)

\* calls made one after the other: a call starts only when none is running
CaseSeqNext ==
    \E p \in Procs :
        \/ Quiet /\ ICGenerateMetadata(p)
        \/ Quiet /\ ICExportBegin(p)
        \/ ICExportWrite(p)

(***************************************************************************)
(* Content validator                                                       *)
(***************************************************************************)
\* AllowedContent.model_fields: the closed content taxonomy (a sample of it)
AllowedContentNames == {"depth", "time", "seismic", "fluid_contact"}

\* the taxonomy names whose content needs extra fields
ContentsWithExtra == {"seismic", "fluid_contact"}

\* content names a caller may write: the taxonomy, the sentinel, a stranger
ContentNames == AllowedContentNames \cup {"unset", "bogus"}

\* what a mapping may hold under its key: {} , a non-empty mapping that fits
\* the content's schema, a non-empty mapping that does not, or no mapping
PayloadKinds == {"empty_dict", "valid_fields", "invalid_fields", "not_a_dict"}

\* the sequences over S of length at most n without a repeated key
RECURSIVE ItemSeqs(_)
ItemSeqs(n) ==
    IF n = 0 THEN {<<>>}
    ELSE LET shorter == ItemSeqs(n - 1) IN
         shorter \cup
         {Append(s, [key |-> k, val |-> v]) :
            s \in {t \in shorter : Len(t) = n - 1},
            k \in ContentNames, v \in PayloadKinds}

DistinctKeys(s) == \A i, j \in 1..Len(s) : i # j => s[i].key # s[j].key

ContentNone == [kind |-> "none", name |-> "", items |-> <<>>]
ContentStr(n) == [kind |-> "str", name |-> n, items |-> <<>>]
ContentDict(s) == [kind |-> "dict", name |-> "", items |-> s]
ContentOther == [kind |-> "other", name |-> "", items |-> <<>>]

\* the content declarations: None, a string, a mapping (keys in insertion
\* order), or another shape (a list, a number)
ContentInputs ==
    {ContentNone, ContentOther}
    \cup {ContentStr(n) : n \in ContentNames}
    \cup {ContentDict(s) : s \in {t \in ItemSeqs(MaxContentKeys) : DistinctKeys(t)}}

NotRun == [status |-> "not_run", usecontent |-> "", specific |-> "None"]
Returned(u, c) == [status |-> "ok", usecontent |-> u, specific |-> c]
Raised(e) == [status |-> e, usecontent |-> "", specific |-> "None"]

\* AllowedContent.requires_additional_input
requires_additional_input(name) == name \in ContentsWithExtra

\* _content_validate: AllowedContent.model_validate({name: fields}); only a
\* content with an extra-field schema takes fields
_content_validate(name, fields) ==
    IF name \in ContentsWithExtra /\ fields = "valid_fields"
    THEN Returned(name, "normalized")
    ELSE Raised("ValidationError")

\* the taxonomy test with its condition never true
InvalidContent_never(usecontent) == FALSE

\* the test of _check_content against AllowedContent.model_fields
InvalidContent(usecontent) ==
    usecontent # "unset" /\ usecontent \notin AllowedContentNames

\* the string branch without the requires_additional_input test
CheckContentStr_norequire(c) ==
    IF InvalidContent(c.name) THEN Raised("ValidationError")
    ELSE Returned(c.name, "None")

\* _check_content, content is a string
CheckContentStr(c) ==
    IF requires_additional_input(c.name) THEN Raised("ValidationError")
    ELSE IF InvalidContent(c.name) THEN Raised("ValidationError")
    ELSE Returned(c.name, "None")

\* _check_content, content is a mapping: its first key is the content name
CheckContentDict(c) ==
    IF c.items = <<>> THEN Raised("IndexError")
    ELSE LET usecontent == c.items[1].key
             content_specific == c.items[1].val
         IN IF content_specific = "not_a_dict" THEN Raised("ValueError")
            ELSE IF InvalidContent(usecontent) THEN Raised("ValidationError")
            ELSE IF content_specific # "empty_dict"
            THEN _content_validate(usecontent, content_specific)
            ELSE Returned(usecontent, "empty_dict")

\* _check_content(proposed): the pair (usecontent, content_specific) returned,
\* or the exception raised
_check_content(c) ==
    CASE c.kind = "none" -> Returned("unset", "None")
      [] c.kind = "str" -> CheckContentStr(c)
      [] c.kind = "dict" -> CheckContentDict(c)
      [] OTHER -> Raised("ValidationError")

\* the validator is called once on the drawn declaration
CheckContent ==
    /\ cvOut = NotRun
    /\ cvOut' = _check_content(cvIn)
    /\ UNCHANGED <<cvIn, notContentVars>>

ContentIdle == cvIn = ContentNone /\ cvOut = NotRun

ContentInit == cvIn \in ContentInputs /\ cvOut = NotRun

ContentNext == CheckContent

CaseIdle ==
    /\ caseDir = FALSE /\ caseFile = NoFile /\ everWritten = {}
    /\ uuidCounter = 0 /\ ic = [p \in Procs |-> NewInstance]

(***************************************************************************)
(* FMUAttributes: schema validation of the fmu block                       *)
(***************************************************************************)
\* what the raw block may hold under a key: no such key, None, an empty
\* mapping, a mapping that validates as the field's model, one that does not
FieldKinds == {"absent", "none", "empty", "valid", "invalid"}

\* the raw fmu blocks
FmuBlocks ==
    [case : {"valid", "invalid"}, model : {"valid"},
     context : {"valid", "absent"}, iteration : {"absent", "valid"},
     workflow : {"absent"}, aggregation : FieldKinds, realization : FieldKinds]

\* values.get(key): None when the key is absent
DictGet(block, key) == IF block[key] = "absent" THEN "none" ELSE block[key]

\* Python truth of a raw value: None and {} are false
Truthy(v) == v \in {"valid", "invalid"}

\* the before-validator letting every block through
_dependencies_aggregation_realization_off(values) == TRUE

\* FMUAttributes._dependencies_aggregation_realization (mode="before"):
\* TRUE when it returns the values, FALSE when it raises
_dependencies_aggregation_realization(values) ==
    LET aggregation == DictGet(values, "aggregation")
        realization == DictGet(values, "realization")
    IN ~(Truthy(aggregation) /\ Truthy(realization))

\* a required field validates
RequiredOk(v) == v = "valid"

\* an Optional[...] field with default None validates
OptionalOk(v) == v \in {"absent", "none", "valid"}

\* FMUAttributes.model_validate(values): the before-validator, then the fields
FMUAttributes_validate(values) ==
    IF ~_dependencies_aggregation_realization(values) THEN "ValidationError"
    ELSE IF /\ RequiredOk(values.case) /\ RequiredOk(values.model)
            /\ RequiredOk(values.context)
            /\ OptionalOk(values.iteration) /\ OptionalOk(values.workflow)
            /\ OptionalOk(values.aggregation) /\ OptionalOk(values.realization)
    THEN "ok"
    ELSE "ValidationError"

\* the drawn block is validated once
ValidateFmu ==
    /\ fmuOut = "not_run"
    /\ fmuOut' = FMUAttributes_validate(fmuIn)
    /\ UNCHANGED <<fmuIn, notFmuVars>>

FmuIdle ==
    /\ fmuIn = [case |-> "valid", model |-> "valid", context |-> "valid",
                iteration |-> "absent", workflow |-> "absent",
                aggregation |-> "absent", realization |-> "absent"]
    /\ fmuOut = "not_run"

FmuInit == fmuIn \in FmuBlocks /\ fmuOut = "not_run"

FmuNext == ValidateFmu

(***************************************************************************)
(* AggregatedData                                                          *)
(***************************************************************************)
\* a string is a sequence of characters, a character a number in its
\* collating order
LexLess(a, b) ==
    \E i \in 1..(Len(a) + 1) :
        /\ \A j \in 1..(i - 1) : j <= Len(b) /\ a[j] = b[j]
        /\ i <= Len(b)
        /\ (i = Len(a) + 1 \/ a[i] < b[i])

\* list.insert keeping the order
RECURSIVE InsertSorted(_, _)
InsertSorted(x, s) ==
    IF s = <<>> THEN <<x>>
    ELSE IF LexLess(s[1], x) THEN <<s[1]>> \o InsertSorted(x, Tail(s))
    ELSE <<x>> \o s

\* sorted(uuids)
RECURSIVE sorted(_)
sorted(s) == IF s = <<>> THEN <<>> ELSE InsertSorted(s[1], sorted(Tail(s)))

\* "".join(strings)
RECURSIVE join(_)
join(s) == IF s = <<>> THEN <<>> ELSE s[1] \o join(Tail(s))

\* an aggregation id: None, the string the caller gave, or the UUID made
\* from the md5 digest of a string
NoneId == [src |-> "none", text |-> <<>>]
GivenId == [src |-> "given", text |-> <<>>]

\* _utils.uuid_from_string: the UUID of the md5 digest of the string; the
\* digest is taken to have no collisions
uuid_from_string(str) == [src |-> "md5", text |-> str]

\* the id made from the UUIDs in the order given
_generate_aggr_uuid_unsorted(uuids) == uuid_from_string(join(uuids))

\* AggregatedData._generate_aggr_uuid
_generate_aggr_uuid(uuids) == uuid_from_string(join(sorted(uuids)))

\* a source document: its fmu.realization.id and fmu.realization.uuid, or a
\* document without them
SourceDoc(rid, ruuid) == [complete |-> TRUE, rid |-> rid, ruuid |-> ruuid]
IncompleteDoc == [complete |-> FALSE, rid |-> 0, ruuid |-> <<>>]
SourceDocs ==
    {SourceDoc(0, <<1, 2>>), SourceDoc(1, <<2, 1>>), SourceDoc(2, <<1, 1>>),
     IncompleteDoc}

\* the lists of at most n source documents
RECURSIVE SourceListsUpTo(_)
SourceListsUpTo(n) ==
    IF n = 0 THEN {<<>>}
    ELSE LET shorter == SourceListsUpTo(n - 1) IN
         shorter \cup {Append(l, d) : l \in shorter, d \in SourceDocs}

SourceLists == SourceListsUpTo(MaxSources)

\* the keyword overrides of a call: none, or a new source_metadata
NoKwargs == [key |-> "none", val |-> <<>>]
AggKwargs ==
    {NoKwargs} \cup {[key |-> "source_metadata", val |-> l] : l \in SourceLists}

\* AggregatedData._update_settings
Agg_update_settings(a, kw) ==
    IF kw.key = "source_metadata" THEN [a EXCEPT !.source_metadata = kw.val]
    ELSE a

NoMetadata ==
    [nonempty |-> FALSE, operation |-> "", realization_ids |-> <<>>,
     id |-> NoneId, stage |-> "", realization |-> FALSE]

\* the blocks of a complete source document that the aggregation rewrites:
\* it has fmu.realization, no fmu.aggregation, and the stage of a realization
DocBlocks(doc) ==
    [nonempty |-> TRUE, operation |-> "", realization_ids |-> <<>>,
     id |-> NoneId, stage |-> "realization", realization |-> doc.complete]

\* a template that is the source document itself, not a copy of it
filter_validate_metadata_shared(doc) == [shared |-> TRUE, doc |-> doc]

\* _utils.filter_validate_metadata: a deep copy of the document (without
\* alien top-level keys)
filter_validate_metadata(doc) == [shared |-> FALSE, doc |-> doc]

\* the template with fmu.aggregation added, fmu.realization left in place
AggregatedDoc_keeprealization(a, real_ids) ==
    [DocBlocks(filter_validate_metadata(a.source_metadata[1]).doc)
        EXCEPT !.operation = a.operation, !.realization_ids = real_ids,
               !.id = a.aggregation_id, !.stage = "iteration"]

\* the document _generate_aggrd_metadata leaves in _metadata: the template
\* without fmu.realization, with fmu.aggregation and the stage "iteration"
AggregatedDoc(a, real_ids) ==
    [DocBlocks(filter_validate_metadata(a.source_metadata[1]).doc)
        EXCEPT !.realization = FALSE,
               !.operation = a.operation, !.realization_ids = real_ids,
               !.id = a.aggregation_id, !.stage = "iteration"]

\* the source documents after _generate_aggrd_metadata rewrote the template:
\* as they were when the template is a copy; when it is the first document
\* itself, that document has lost its fmu.realization block
SourcesAfter(src) ==
    IF filter_validate_metadata(src[1]).shared
    THEN [src EXCEPT ![1] = IncompleteDoc]
    ELSE src

\* the loop of generate_metadata over source_metadata
RealIds(src) == [i \in 1..Len(src) |-> src[i].rid]
Uuids(src) == [i \in 1..Len(src) |-> src[i].ruuid]
\* the loop looking at the first document only
AllComplete_firstonly(src) == src = <<>> \/ src[1].complete
AllComplete(src) == \A i \in 1..Len(src) : src[i].complete

CallRecord(outcome, uuids, derived) ==
    [outcome |-> outcome, uuids |-> uuids, derived |-> derived]

\* AggregatedData.generate_metadata(obj, **kwargs), with
\* _generate_aggrd_metadata: the settings are updated, the realization ids
\* and UUIDs are collected, the id is derived if none is set, the operation
\* is checked, the first document is the template
AggGenerateMetadata(kw) ==
    LET a1 == Agg_update_settings(agg, kw)
        src == a1.source_metadata
        derive == a1.aggregation_id = NoneId
        a2 == IF derive
              THEN [a1 EXCEPT !.aggregation_id = _generate_aggr_uuid(Uuids(src))]
              ELSE a1
    IN /\ IF ~AllComplete(src)
          THEN /\ agg' = a1
               /\ aggLast' = CallRecord("ValidationError", <<>>, FALSE)
          ELSE IF a2.operation = ""
          THEN /\ agg' = a2
               /\ aggLast' = CallRecord("ValueError", Uuids(src), derive)
          ELSE IF src = <<>>
          THEN /\ agg' = a2
               /\ aggLast' = CallRecord("IndexError", Uuids(src), derive)
          ELSE /\ agg' = [a2 EXCEPT !._metadata = AggregatedDoc(a2, RealIds(src)),
                                   !.source_metadata = SourcesAfter(src)]
               /\ aggLast' = CallRecord("ok", Uuids(src), derive)
       /\ UNCHANGED notAggVars

NotCalled == CallRecord("not_called", <<>>, FALSE)

NewAggregatedData(id, src, op) ==
    [aggregation_id |-> id, source_metadata |-> src, operation |-> op,
     _metadata |-> NoMetadata]

AggIdle == agg = NewAggregatedData(NoneId, <<>>, "") /\ aggLast = NotCalled

AggInit ==
    /\ agg \in {NewAggregatedData(id, src, op) :
                  id \in {NoneId, GivenId}, src \in SourceLists,
                  op \in {"", "mean"}}
    /\ aggLast = NotCalled

AggNext == \E kw \in AggKwargs : AggGenerateMetadata(kw)

(***************************************************************************)
(* ExportData: the settings layers                                         *)
(***************************************************************************)
\* a Python value: its type and what tells it from others of that type
Val(ty, v) == [ty |-> ty, v |-> v]
StrV(x) == Val("str", x)
DictV(x) == Val("dict", x)
ListV(x) == Val("list", x)
IntV(x) == Val("int", x)
EnumV(x) == Val("FmuContext", x)
BoolV(x) == Val("bool", x)
PathV(x) == Val("Path", x)
NoneV == Val("NoneType", "")
\* the instance has no such attribute
NoAttr == Val("absent", "")

\* the input keys of the dataclass that are modelled (lines 427-455)
PublicKeys ==
    {"name", "table_index", "vertical_domain", "content", "fmu_context",
     "timedata", "config", "access_ssdl", "casepath", "tagname", "subfolder",
     "reuse_metadata_rule", "points_fformat", "polygons_fformat"}

\* the non-public fields (lines 457-467)
PrivateKeys ==
    {"_usecontent", "_usefmtflag", "_metadata", "_pwd", "_config_is_valid",
     "_rootpath"}

\* __annotations__: the input keys and the non-public fields
Annotations == PublicKeys \cup PrivateKeys

\* attribute names that occur: the annotated ones, one that is not, and
\* the entry config["access"]["ssdl"] of the config dictionary, kept beside
\* the rest of the dictionary
AttrKeys == Annotations \cup {"bogus", "config.access.ssdl"}

\* key.startswith("_")
StartsWithUnderscore(key) == key \in PrivateKeys

\* what _validate_variable tests a value against: the types of the
\* annotation, or "typing" when str(validcheck) holds "typing." (no check)
ValidCheck(key) ==
    CASE key = "name" -> {"str"}
      [] key = "table_index" -> {"list", "NoneType"}
      [] key = "vertical_domain" -> {"dict"}
      [] key = "content" -> {"dict", "str", "NoneType"}
      [] key = "fmu_context" -> {"FmuContext", "str"}
      [] key = "timedata" -> {"typing"}
      [] key = "config" -> {"dict"}
      [] key = "access_ssdl" -> {"dict"}
      [] key = "casepath" -> {"str", "Path", "NoneType"}
      [] key = "tagname" -> {"str"}
      [] key = "subfolder" -> {"str"}
      [] key = "reuse_metadata_rule" -> {"str", "NoneType"}
      [] key \in {"points_fformat", "polygons_fformat"} -> {"str"}
      [] key = "_usecontent" -> {"dict", "str"}
      [] OTHER -> {}

\* _validate_variable(key, value, legals): TRUE, or FALSE for the
\* ValidationError it raises
_validate_variable(key, value, legals) ==
    /\ key \in legals
    /\ ("typing" \notin ValidCheck(key) => value.ty \in ValidCheck(key))

\* the members of the FmuContext enum
FmuContextNames ==
    {"realization", "case", "case_symlink_realization", "preprocessed"}

\* FmuContext.get(key) succeeds
FmuContextKnown(value) ==
    value.ty = "FmuContext" \/ (value.ty = "str" /\ value.v \in FmuContextNames)

\* FmuContext.get(key): the member itself, or the member a string names
FmuContext_get(value) ==
    IF value.ty = "FmuContext" THEN value ELSE EnumV(value.v)

\* the content setting as the validator sees it
ContentOf(value) ==
    CASE value.ty = "NoneType" -> ContentNone
      [] value.ty = "str" -> ContentStr(value.v)
      [] value.ty = "dict" ->
            ContentDict(<<[key |-> value.v, val |-> "empty_dict"]>>)
      [] OTHER -> ContentOther

\* the defaults of the dataclass fields
Default(key) ==
    CASE key = "name" -> StrV("")
      [] key = "table_index" -> NoneV
      [] key = "vertical_domain" -> DictV("")
      [] key = "content" -> NoneV
      [] key = "fmu_context" -> EnumV("realization")
      [] key = "timedata" -> NoneV
      [] key = "config" -> DictV("")
      [] key = "access_ssdl" -> DictV("")
      [] key = "casepath" -> NoneV
      [] key = "tagname" -> StrV("")
      [] key = "subfolder" -> StrV("")
      [] key = "reuse_metadata_rule" -> NoneV
      [] key \in {"points_fformat", "polygons_fformat"} -> StrV("csv")
      [] key = "_usecontent" -> DictV("")
      [] key = "_usefmtflag" -> StrV("")
      [] key = "_metadata" -> DictV("")
      [] key = "_pwd" -> PathV(".")
      [] key = "_rootpath" -> PathV(".")
      [] key = "_config_is_valid" -> BoolV("True")
      [] OTHER -> NoAttr

\* the sequences of at most n (key, value) pairs over a set of pairs
RECURSIVE PairSeqs(_, _)
PairSeqs(pairs, n) ==
    IF n = 0 THEN {<<>>}
    ELSE LET shorter == PairSeqs(pairs, n - 1) IN
         shorter \cup
         {Append(s, q) : s \in {t \in shorter : Len(t) = n - 1}, q \in pairs}

Pair(k, v) == [key |-> k, val |-> v]
Keys(kw) == {kw[i].key : i \in 1..Len(kw)}
\* kwargs.get(key, default)
KwGet(kw, key, default) ==
    IF key \in Keys(kw)
    THEN (CHOOSE q \in {kw[i] : i \in 1..Len(kw)} : q.key = key).val
    ELSE default

\* keyword arguments a caller passes to the constructor: any subset of these
CtorPairs ==
    {Pair("name", StrV("ctor")), Pair("vertical_domain", DictV("ctor"))}
CtorArgs == {c \in SUBSET CtorPairs : TRUE}

\* entries the settings file named by FMU_DATAIO_CONFIG may hold
EnvPairs ==
    {Pair("name", StrV("env")), Pair("name", IntV("env")),
     Pair("vertical_domain", DictV("env")), Pair("bogus", StrV("env")),
     Pair("_usecontent", StrV("env"))}
EnvFiles == {e \in PairSeqs(EnvPairs, MaxEnvKeys) : DistinctKeys(e)}

\* keyword overrides a caller may pass to generate_metadata() or export()
CallPairs ==
    {Pair("name", StrV("call")), Pair("name", IntV("call")),
     Pair("table_index", ListV("call")), Pair("table_index", StrV("call")),
     Pair("timedata", StrV("call")), Pair("content", StrV("depth")),
     Pair("fmu_context", StrV("case")), Pair("config", DictV("call")),
     Pair("bogus", StrV("call"))}
Kwargs == {k \in PairSeqs(CallPairs, MaxKwargs) : DistinctKeys(k)}

\* Python truth of a value: None, "" and {} are false
IsTruthy(value) == value.ty \notin {"NoneType", "absent"} /\ value.v # ""

\* the directories a process may run in, and the parent of a directory
WorkDirs == {"/c/rms/model", "/d"}
Parent(dir) ==
    CASE dir = "/c/rms/model" -> "/c/rms"
      [] dir = "/c/rms" -> "/c"
      [] OTHER -> "/"

\* (pwd / "../../.").absolute().resolve()
TwoUp(dir) == Parent(Parent(dir))

\* the object handed to a call: an object in memory, or the path of a file
\* exported earlier
MemObj == "obj"
FilePaths == {"f1", "f2", "f3", "f4"}
Objs == {MemObj} \cup FilePaths

\* obj.exists()
FileExists(file) == file \in {"f1", "f2", "f3"}

\* "_preprocessed" in read_metadata(obj)
HasMarker(file) == file \in {"f1", "f2"}

\* read_metadata(obj)["_preprocessed"].get(key, "")
Marker(file, key) ==
    CASE file = "f1" /\ key = "name" -> "m1"
      [] file = "f1" /\ key = "tagname" -> "t1"
      [] file = "f2" /\ key = "name" -> "m2"
      [] file = "f2" /\ key = "subfolder" -> "s2"
      [] OTHER -> ""

\* the loop "for setting, value in newsettings.items(): if
\* _validate_variable(...): setattr(...)": the attributes when it stops, and
\* whether it ran to the end
RECURSIVE ApplySettings(_, _, _)
ApplySettings(attrs, kw, legals) ==
    IF kw = <<>> THEN [attrs |-> attrs, ok |-> TRUE]
    ELSE IF ~_validate_variable(kw[1].key, kw[1].val, legals)
    THEN [attrs |-> attrs, ok |-> FALSE]
    ELSE ApplySettings([attrs EXCEPT ![kw[1].key] = kw[1].val], Tail(kw), legals)

Ended(attrs, outcome) == [attrs |-> attrs, outcome |-> outcome]

\* ExportData._validate_content_key
ValidateContent(attrs) ==
    LET c == _check_content(ContentOf(attrs.content)) IN
    IF c.status # "ok" THEN Ended(attrs, c.status)
    ELSE Ended([attrs EXCEPT !["_usecontent"] = StrV(c.usecontent)], "ok")

\* ExportData._validate_fmucontext_key
ValidateFmuContext(attrs) ==
    IF attrs.fmu_context.ty # "str" THEN Ended(attrs, "ok")
    ELSE IF ~FmuContextKnown(attrs.fmu_context) THEN Ended(attrs, "KeyError")
    ELSE Ended([attrs EXCEPT !.fmu_context = FmuContext_get(@)], "ok")

\* ExportData._update_globalconfig_from_settings: a non-empty access_ssdl
\* goes into config["access"]["ssdl"]; an empty config has no "access"
_update_globalconfig_from_settings(attrs) ==
    IF ~IsTruthy(attrs.access_ssdl) THEN Ended(attrs, "ok")
    ELSE IF attrs.config.v = "" THEN Ended(attrs, "KeyError")
    ELSE Ended([attrs EXCEPT !["config.access.ssdl"] = attrs.access_ssdl], "ok")

\* global_configuration.is_valid(self.config): the config validates as the
\* global configuration model
is_valid(attrs) ==
    attrs.config.v = "valid" /\ attrs["config.access.ssdl"].v # "badssdl"

\* self._config_is_valid = global_configuration.is_valid(self.config); a
\* valid config is replaced by its round trip through the model
CheckConfig(attrs) ==
    [attrs EXCEPT !["_config_is_valid"] =
                      BoolV(IF is_valid(attrs) THEN "True" ELSE "False")]

\* the resolution with the working directory taken once: a later call
\* keeps the directory of the first
_establish_pwd_rootpath_frozen(attrs) ==
    LET pwd == IF attrs["_pwd"] = Default("_pwd") THEN cwd ELSE attrs["_pwd"].v
    IN [attrs EXCEPT
           !["_pwd"] = PathV(pwd),
           !["_rootpath"] =
               IF IsTruthy(attrs.casepath) /\ attrs.casepath.ty \in {"str", "Path"}
               THEN PathV(attrs.casepath.v)
               ELSE IF insideRms THEN PathV(TwoUp(pwd))
               ELSE PathV(pwd)]

\* ExportData._establish_pwd_rootpath
_establish_pwd_rootpath(attrs) ==
    [attrs EXCEPT
        !["_pwd"] = PathV(cwd),
        !["_rootpath"] =
            IF IsTruthy(attrs.casepath) /\ attrs.casepath.ty \in {"str", "Path"}
            THEN PathV(attrs.casepath.v)
            ELSE IF insideRms THEN PathV(TwoUp(cwd))
            ELSE PathV(cwd)]

\* the name, tagname or subfolder after the look at the marker: kept when
\* set, else the marker's when it has one
Backfilled(attrs, file, key) ==
    IF ~IsTruthy(attrs[key]) /\ Marker(file, key) # ""
    THEN StrV(Marker(file, key)) ELSE attrs[key]

\* ExportData._check_obj_if_file(obj)
_check_obj_if_file(attrs, obj) ==
    LET ruled == IF IsTruthy(attrs.reuse_metadata_rule) THEN attrs
                 ELSE [attrs EXCEPT !.reuse_metadata_rule = StrV("preprocessed")]
    IN IF obj \notin FilePaths THEN Ended(attrs, "ok")
       ELSE IF ~FileExists(obj) THEN Ended(attrs, "ValidationError")
       ELSE IF ~HasMarker(obj) THEN Ended(ruled, "ValidationError")
       ELSE Ended([ruled EXCEPT !.name = Backfilled(ruled, obj, "name"),
                                !.tagname = Backfilled(ruled, obj, "tagname"),
                                !.subfolder = Backfilled(ruled, obj, "subfolder")],
                  "ok")

\* _metadata.MetaData(obj, self).generate_export_metadata(): the document is
\* stored, and the case root is the one the assembler reports
AssembleMetadata(attrs) == [attrs EXCEPT !["_metadata"] = DictV("doc")]

\* the dataclass __init__: the defaults, then the constructor's arguments
Constructed(ctor) ==
    [k \in AttrKeys |->
        IF \E q \in ctor : q.key = k
        THEN (CHOOSE q \in ctor : q.key = k).val
        ELSE Default(k)]

\* __post_init__ up to the settings file, as written in the source
PostInitDefaults(attrs) ==
    [attrs EXCEPT !.fmu_context = FmuContext_get(@),
                  !.vertical_domain = DictV("depth: msl")]

\* FMU_GLOBAL_CONFIG is not in the environment
NoGlobalEnv == NoAttr

\* self.config = some_config_from_env(GLOBAL_ENVNAME) or {}
ConfigFromEnv(attrs, genv) ==
    IF genv = NoGlobalEnv THEN attrs
    ELSE [attrs EXCEPT !.config = genv, !["config.access.ssdl"] = NoAttr]

\* ExportData.__post_init__ on the attributes the constructor stored, with
\* the settings file env and the global config file genv of the environment
PostInit(attrs0, env, genv) ==
    IF ~FmuContextKnown(attrs0.fmu_context) THEN Ended(attrs0, "KeyError")
    ELSE LET a1 == PostInitDefaults(attrs0)
             legals == {k \in Annotations : ~StartsWithUnderscore(k)}
             r == ApplySettings(a1, env, legals)
             c == ValidateContent(ConfigFromEnv(r.attrs, genv))
             g == _update_globalconfig_from_settings(c.attrs)
         IN IF ~r.ok THEN Ended(r.attrs, "ValidationError")
            ELSE IF c.outcome # "ok" THEN c
            ELSE IF g.outcome # "ok" THEN g
            ELSE Ended(_establish_pwd_rootpath(CheckConfig(g.attrs)), "ok")

\* the settings part of a call that starts from the defaults of the keys
\* the call does not pass
_update_check_settings_fallback(attrs, kw) ==
    LET legals == {k \in Annotations : ~StartsWithUnderscore(k)} \ {"config"}
        fresh == [k \in DOMAIN attrs |->
                    IF k \in {"name", "tagname", "table_index"}
                    THEN Default(k) ELSE attrs[k]]
        r == ApplySettings(fresh, kw, legals)
        c == ValidateContent(r.attrs)
    IN IF "config" \in Keys(kw) THEN Ended(attrs, "ValueError")
       ELSE IF ~r.ok THEN Ended(r.attrs, "ValidationError")
       ELSE IF c.outcome # "ok" THEN c
       ELSE ValidateFmuContext(c.attrs)

\* the settings part of a call without the look at content and fmu_context
_update_check_settings_unvalidated(attrs, kw) ==
    LET legals == {k \in Annotations : ~StartsWithUnderscore(k)} \ {"config"}
        r == ApplySettings(attrs, kw, legals)
    IN IF "config" \in Keys(kw) THEN Ended(attrs, "ValueError")
       ELSE IF ~r.ok THEN Ended(r.attrs, "ValidationError")
       ELSE Ended(r.attrs, "ok")

\* ExportData._update_check_settings(newsettings)
_update_check_settings(attrs, kw) ==
    LET legals == {k \in Annotations : ~StartsWithUnderscore(k)} \ {"config"}
        r == ApplySettings(attrs, kw, legals)
        c == ValidateContent(r.attrs)
    IN IF "config" \in Keys(kw) THEN Ended(attrs, "ValueError")
       ELSE IF ~r.ok THEN Ended(r.attrs, "ValidationError")
       ELSE IF c.outcome # "ok" THEN c
       ELSE ValidateFmuContext(c.attrs)

\* ExportData._update_fmt_flag
_update_fmt_flag(attrs) ==
    IF attrs.points_fformat = StrV("csv|xtgeo")
       \/ attrs.polygons_fformat = StrV("csv|xtgeo")
    THEN [attrs EXCEPT !["_usefmtflag"] = StrV("xtgeo")]
    ELSE attrs

\* ExportData.generate_metadata(obj, **kwargs)
ED_generate_metadata(attrs, obj, kw) ==
    LET s == _update_check_settings(attrs, kw)
        g == _update_globalconfig_from_settings(s.attrs)
        f == _check_obj_if_file(CheckConfig(g.attrs), obj)
        c == ValidateContent(_establish_pwd_rootpath(f.attrs))
    IN IF s.outcome # "ok" THEN s
       ELSE IF g.outcome # "ok" THEN g
       ELSE IF f.outcome # "ok" THEN f
       ELSE IF c.outcome # "ok" THEN c
       ELSE Ended(AssembleMetadata(_update_fmt_flag(c.attrs)), "ok")

\* how an operation ended, the object it was handed, and what an export
\* wrote: the data file, the metadata file beside it, the warning that
\* there is no metadata
OpRecord(op, outcome) ==
    [op |-> op, outcome |-> outcome, obj |-> "none", data |-> FALSE,
     sidecar |-> FALSE, warned |-> FALSE]
Exported(valid) ==
    [op |-> "export", outcome |-> "ok", obj |-> "none", data |-> TRUE,
     sidecar |-> valid, warned |-> ~valid]

\* ExportData.export(obj, **kwargs): table_index is taken from the kwargs,
\* then generate_metadata is called with them; the data file is written,
\* and the metadata file when the config is valid
ED_export(attrs, obj, kw) ==
    LET r == ED_generate_metadata(
                [attrs EXCEPT !.table_index = KwGet(kw, "table_index", @)],
                obj, kw)
        f == _check_obj_if_file(r.attrs, obj)
    IN IF r.outcome # "ok"
       THEN [attrs |-> r.attrs, rec |-> OpRecord("export", r.outcome)]
       ELSE IF f.outcome # "ok"
       THEN [attrs |-> f.attrs, rec |-> OpRecord("export", f.outcome)]
       ELSE [attrs |-> f.attrs,
             rec |-> Exported(f.attrs["_config_is_valid"] = BoolV("True"))]

\* ExportData(**ctor) with the settings file env and the global config
\* file genv in the environment
EDConstruct(ctor, env, genv) ==
    /\ epc = "new"
    /\ LET r == PostInit(Constructed(ctor), env, genv) IN
       /\ epc' = IF r.outcome = "ok" THEN "ready" ELSE "failed"
       /\ ed' = IF r.outcome = "ok" THEN r.attrs ELSE ed
       /\ edLast' = OpRecord("init", r.outcome)
    /\ UNCHANGED <<cwd, insideRms, notEdVars>>

\* a call of generate_metadata(obj, **kw)
EDGenerateMetadata(obj, kw) ==
    /\ epc = "ready"
    /\ LET r == ED_generate_metadata(ed, obj, kw) IN
       /\ ed' = r.attrs
       /\ edLast' = [OpRecord("generate_metadata", r.outcome) EXCEPT !.obj = obj]
    /\ UNCHANGED <<epc, cwd, insideRms, notEdVars>>

\* a call of export(obj, **kw)
EDExport(obj, kw) ==
    /\ epc = "ready"
    /\ LET r == ED_export(ed, obj, kw) IN
       /\ ed' = r.attrs
       /\ edLast' = [r.rec EXCEPT !.obj = obj]
    /\ UNCHANGED <<epc, cwd, insideRms, notEdVars>>

\* os.chdir(dir) between two calls
Chdir(dir) ==
    /\ epc = "ready"
    /\ dir # cwd
    /\ cwd' = dir
    /\ edLast' = OpRecord("chdir", "ok")
    /\ UNCHANGED <<epc, ed, insideRms, notEdVars>>

\* no ExportData instance yet
EdNew ==
    /\ epc = "new"
    /\ ed = [k \in AttrKeys |-> Default(k)]
    /\ edLast = OpRecord("none", "ok")

EdIdle ==
    /\ EdNew
    /\ cwd = "/c/rms/model"
    /\ insideRms = FALSE

EdInit == EdIdle

EdNext ==
    \/ \E ctor \in CtorArgs, env \in EnvFiles :
          EDConstruct(ctor, env, NoGlobalEnv)
    \/ \E kw \in Kwargs : EDGenerateMetadata(MemObj, kw)
    \/ \E kw \in Kwargs : EDExport(MemObj, kw)

(***************************************************************************)
(* AggregatedData._construct_filename                                      *)
(***************************************************************************)
\* a string is a sequence of one-character strings; None is NoPath
NoPath == <<"None">>
Slash == <<"/">>

\* s[i:].startswith(pat), i counted from 1
StartsWithAt(s, i, pat) ==
    /\ i + Len(pat) - 1 <= Len(s)
    /\ \A j \in 1..Len(pat) : s[i + j - 1] = pat[j]

\* s[i:].replace(pat, ""), i counted from 1: every occurrence of pat, found
\* from the left, is dropped
RECURSIVE ReplaceFrom(_, _, _)
ReplaceFrom(s, i, pat) ==
    IF i > Len(s) THEN <<>>
    ELSE IF StartsWithAt(s, i, pat) THEN ReplaceFrom(s, i + Len(pat), pat)
    ELSE <<s[i]>> \o ReplaceFrom(s, i + 1, pat)

\* s.replace(pat, "")
StrRemove(s, pat) == ReplaceFrom(s, 1, pat)

\* s.rfind(ch), counted from 1; 0 when ch is not in s
LastIndex(s, ch) ==
    IF \E i \in 1..Len(s) : s[i] = ch
    THEN CHOOSE i \in 1..Len(s) :
            s[i] = ch /\ \A j \in (i + 1)..Len(s) : s[j] # ch
    ELSE 0

\* Path.name: what follows the last separator
PathName(p) == SubSeq(p, LastIndex(p, "/") + 1, Len(p))

\* Path.parent, as a string; <<>> stands for "."
PathParent(p) ==
    LET i == LastIndex(p, "/") IN
    IF i = 0 THEN <<>> ELSE IF i = 1 THEN Slash ELSE SubSeq(p, 1, i - 1)

\* parent / name
PathJoin(parent, name) ==
    IF parent = <<>> THEN name
    ELSE IF parent = Slash THEN parent \o name
    ELSE parent \o Slash \o name

\* the name has a suffix: a dot that is neither its first nor its last
\* character
HasSuffix(name) ==
    LET i == LastIndex(name, ".") IN 1 < i /\ i < Len(name)

\* Path.suffix and Path.stem of a name
NameSuffix(name) ==
    IF HasSuffix(name) THEN SubSeq(name, LastIndex(name, "."), Len(name))
    ELSE <<>>
NameStem(name) ==
    IF HasSuffix(name) THEN SubSeq(name, 1, LastIndex(name, ".") - 1)
    ELSE name

\* Path.with_suffix(suffix): the suffix of the name is replaced, or the
\* suffix is added to a name that has none
WithSuffix(p, suffix) ==
    PathJoin(PathParent(p), NameStem(PathName(p)) \o suffix)

\* the inputs of one call
RealiNames == {<<"r">>}
RelPaths ==
    {<<"r", "/", "x", ".", "g">>,
     <<"r", "/", "i", "/", "x", ".", "g">>,
     <<"r", "/", "i", "/", "x">>}
AbsRoots == {<<"/", "c">>, <<"/", "a", "r">>}
CasePaths == {NoPath, <<"/", "d">>, <<"/", "e">>}
\* the directories that exist
ExistingDirs == {<<"/", "c">>, <<"/", "a", "r">>, <<"/", "d">>}
FnNames == {<<>>, <<"n">>}
FnTagnames == {<<>>, <<"t">>, <<"t", ".", "v">>}
FnOperations == {<<"m">>, <<"p", ".", "q">>}

\* the template's file.absolute_path: missing, or the relative path under
\* a root
AbsPathsOf(rel) == {NoPath} \cup {root \o Slash \o rel : root \in AbsRoots}

FnInputs ==
    UNION {{[realiname |-> rn, relpath |-> rel, abspath |-> ab,
             casepath |-> cp, name |-> n, tagname |-> t, operation |-> op] :
               rn \in RealiNames, ab \in AbsPathsOf(rel), cp \in CasePaths,
               n \in FnNames, t \in FnTagnames, op \in FnOperations} :
           rel \in RelPaths}

FnResult(status, relname, absname) ==
    [status |-> status, relname |-> relname, absname |-> absname]
FnNotRun == FnResult("not_run", NoPath, NoPath)

\* the file name of the aggregated data: <stem>--<operation>, or the name
\* when one is given, then --<tagname> when one is given
Usename(in, stem) ==
    LET base == IF in.name = <<>>
                THEN stem \o <<"-", "-">> \o in.operation
                ELSE in.name
    IN IF in.tagname # <<>> THEN base \o <<"-", "-">> \o in.tagname ELSE base

\* AggregatedData._construct_filename(template)
_construct_filename(in) ==
    LET abspath0 == IF in.casepath # NoPath
                    THEN PathJoin(in.casepath, in.relpath)
                    ELSE in.abspath
        relpath == StrRemove(in.relpath, in.realiname \o Slash)
        abspath == IF abspath0 = NoPath THEN NoPath
                   ELSE StrRemove(abspath0, in.realiname \o Slash)
        suffix == NameSuffix(PathName(relpath))
        usename == Usename(in, NameStem(PathName(relpath)))
    IN IF in.casepath # NoPath /\ in.casepath \notin ExistingDirs
       THEN FnResult("ValueError", NoPath, NoPath)
       ELSE FnResult("ok",
                WithSuffix(PathJoin(PathParent(relpath), usename), suffix),
                IF abspath = NoPath THEN NoPath
                ELSE WithSuffix(PathJoin(PathParent(abspath), usename), suffix))

\* the paths are made for the drawn inputs
ConstructFilename ==
    /\ fnOut = FnNotRun
    /\ fnOut' = _construct_filename(fnIn)
    /\ UNCHANGED <<fnIn, notFnVars>>

FnIdle ==
    /\ fnIn = [realiname |-> <<"r">>, relpath |-> <<"r", "/", "x", ".", "g">>,
               abspath |-> NoPath, casepath |-> NoPath, name |-> <<>>,
               tagname |-> <<>>, operation |-> <<"m">>]
    /\ fnOut = FnNotRun

FnInit == fnIn \in FnInputs /\ fnOut = FnNotRun

FnNext == ConstructFilename

(***************************************************************************)
(* Specifications                                                          *)
(***************************************************************************)
\* ---------------------------------------------------------------------
\* The documents generate_metadata returns
\* ---------------------------------------------------------------------

Classes == {"ExportData", "InitializeCase", "AggregatedData"}
Refs == 1..MaxDocs
NoRef == 0
NoDoc == [kind |-> "none", edited |-> FALSE, checksum |-> FALSE]

\* the document a class assembles, and the empty dict
NewDoc == [kind |-> "doc", edited |-> FALSE, checksum |-> FALSE]
EmptyDoc == [kind |-> "empty", edited |-> FALSE, checksum |-> FALSE]

\* a reference no live object has
Alloc(h) == CHOOSE r \in Refs : h[r] = NoDoc /\ \A q \in Refs : h[q] = NoDoc => r <= q

\* a new dict object holding doc
New(h, doc) == [heap |-> [h EXCEPT ![Alloc(h)] = doc], ref |-> Alloc(h)]

\* returning the object itself
deepcopy_alias(h, r) == [heap |-> h, ref |-> r]

\* copy.deepcopy(obj): a new object with the same content
deepcopy(h, r) == New(h, h[r])

\* the objects nothing refers to any more are gone, and the others are
\* numbered in the order of the references to them (a reference has no
\* meaning beyond which object it names)
ClassOrder == <<"ExportData", "InitializeCase", "AggregatedData">>
Collect(h, i, r) ==
    LET slots == [k \in 1..6 |-> IF k % 2 = 1 THEN i[ClassOrder[(k + 1) \div 2]]
                                 ELSE r[ClassOrder[k \div 2]]]
        first(q) == CHOOSE k \in 1..6 :
                        slots[k] = q /\ \A j \in 1..6 : slots[j] = q => k <= j
        canon(q) == IF q = NoRef THEN NoRef
                    ELSE Cardinality({slots[j] : j \in 1..first(q)} \ {NoRef})
        live == {slots[k] : k \in 1..6} \ {NoRef}
    IN [heap |-> [n \in Refs |->
                    IF \E q \in live : canon(q) = n
                    THEN h[CHOOSE q \in live : canon(q) = n] ELSE NoDoc],
        inst |-> [cls \in Classes |-> canon(i[cls])],
        ret |-> [cls \in Classes |-> canon(r[cls])]]

\* <Class>.generate_metadata(...): self._metadata is assembled anew and a
\* deep copy of it is returned; InitializeCase returns {} when the case
\* metadata file exists
Copy_generate_metadata(h, i, cls, fileExists) ==
    IF cls = "InitializeCase" /\ fileExists
    THEN LET e == New(h, EmptyDoc)
         IN [heap |-> e.heap, inst |-> i, ret |-> e.ref]
    ELSE LET m == New(h, NewDoc)
             c == deepcopy(m.heap, m.ref)
         IN [heap |-> c.heap, inst |-> [i EXCEPT ![cls] = m.ref], ret |-> c.ref]

\* the caller receives the document of generate_metadata()
CopyGenerate(cls) ==
    LET g == Copy_generate_metadata(heap, inst, cls, disk[cls] # NoDoc)
        c == Collect(g.heap, g.inst, [ret EXCEPT ![cls] = g.ret])
    IN /\ inst' = c.inst
       /\ ret' = c.ret
       /\ heap' = c.heap
       /\ UNCHANGED <<disk, notCopyVars>>

\* the caller changes the document it received
CopyMutate(cls) ==
    /\ ret[cls] # NoRef
    /\ ~heap[ret[cls]].edited
    /\ heap' = [heap EXCEPT ![ret[cls]].edited = TRUE]
    /\ UNCHANGED <<inst, ret, disk, notCopyVars>>

\* <Class>.export(...): generate_metadata() is called, and a document is
\* written to the metadata file. ExportData writes self._metadata with the
\* checksum put in; InitializeCase writes self._metadata when the call
\* returned a document; AggregatedData puts the checksum in the copy it got
\* back, writes it and stores it in self._metadata
CopyExport(cls) ==
    LET g == Copy_generate_metadata(heap, inst, cls, disk[cls] # NoDoc)
        target == IF cls = "AggregatedData" THEN g.ret ELSE g.inst[cls]
        summed == IF cls = "InitializeCase" THEN g.heap
                  ELSE [g.heap EXCEPT ![target].checksum = TRUE]
        i == IF cls = "AggregatedData" THEN [g.inst EXCEPT ![cls] = g.ret]
             ELSE g.inst
        c == Collect(summed, i, ret)
    IN /\ inst' = c.inst
       /\ ret' = c.ret
       /\ disk' = IF g.heap[g.ret].kind = "empty" THEN disk
                  ELSE [disk EXCEPT ![cls] = summed[target]]
       /\ heap' = c.heap
       /\ UNCHANGED notCopyVars

CopyIdle ==
    /\ heap = [q \in Refs |-> NoDoc]
    /\ inst = [cls \in Classes |-> NoRef]
    /\ ret = [cls \in Classes |-> NoRef]
    /\ disk = [cls \in Classes |-> NoDoc]

CopyNext ==
    \/ \E cls \in Classes : CopyGenerate(cls)
    \/ \E cls \in Classes : CopyMutate(cls)
    \/ \E cls \in Classes : CopyExport(cls)

(***************************************************************************)
(* The file block (meta.py 70-112)                                         *)
(***************************************************************************)
\* a path is the sequence of its characters' code points; AbsentPath stands
\* for a key the block does not have
AbsentPath == <<-1>>
AsciiPath == <<47, 97>>
NonAsciiPath == <<47, 230>>
PathValues == {AbsentPath, AsciiPath, NonAsciiPath}
PathKeys ==
    {"absolute_path", "relative_path", "relative_path_symlink",
     "absolute_path_symlink"}

\* the raw file blocks handed to schema validation
FileBlocks ==
    [absolute_path : PathValues, relative_path : PathValues,
     relative_path_symlink : PathValues, absolute_path_symlink : PathValues,
     checksum_md5 : {"absent", "set"}]

\* str.isascii()
isascii(path) == \A i \in 1..Len(path) : path[i] < 128

\* File._check_for_non_ascii_in_path: TRUE when it raises
_check_for_non_ascii_in_path(values) ==
    values.absolute_path # AbsentPath /\ ~isascii(values.absolute_path)

\* File.model_validate(values): the validator that runs before the fields,
\* then the fields without a default
File_validate(values) ==
    IF _check_for_non_ascii_in_path(values) THEN "ValidationError"
    ELSE IF values.relative_path = AbsentPath \/ values.checksum_md5 = "absent"
    THEN "ValidationError"
    ELSE "ok"

\* schema validation of the drawn file block
ValidateFile ==
    /\ fileOut = "not_run"
    /\ fileOut' = File_validate(fileIn)
    /\ UNCHANGED <<fileIn, notFileVars>>

FileIdle ==
    /\ fileIn = [absolute_path |-> AbsentPath, relative_path |-> AsciiPath,
                 relative_path_symlink |-> AbsentPath,
                 absolute_path_symlink |-> AbsentPath, checksum_md5 |-> "set"]
    /\ fileOut = "not_run"

FileInit ==
    /\ fileIn \in FileBlocks
    /\ fileOut = "not_run"

FileNext == ValidateFile

(***************************************************************************)
(* The metadata file beside an exported data file (dataio.py 754-776,      *)
(* 1268-1280)                                                              *)
(***************************************************************************)
MetaFormats == {"yaml", "json"}
YmlExt == <<".", "y", "m", "l">>
JsonExt == <<".", "j", "s", "o", "n">>

\* metadata["file"]["absolute_path"] of an export
OutDirs == {<<"/", "c">>, <<"/", "c", "/", "m">>, <<"/", "y", ".", "y", "m", "l">>}
OutNames ==
    {<<"x", ".", "g">>, <<"x">>, <<"a", ".", "y", "m", "l">>, <<".", "h">>,
     <<"t", "-", "-", "d", ".", "c">>}
Outfiles == {PathJoin(dir, name) : dir \in OutDirs, name \in OutNames}
SidecarInputs ==
    [cls : {"ExportData", "AggregatedData"}, outfile : Outfiles,
     meta_format : MetaFormats]

\* metafile = outfile.parent / ("." + str(outfile.name) + ".yml")
Metafile(outfile) ==
    PathJoin(PathParent(outfile), <<".">> \o PathName(outfile) \o YmlExt)

\* a writer that takes the file name as handed over, whatever the format
SavedAs_asgiven(file, savefmt) == file

\* export_metadata_file(file, metadata, savefmt=...): the name the document
\* is saved under: the one handed over for yaml, with .json in the place of
\* the final .yml for json
SavedAs(file, savefmt) ==
    IF savefmt = "yaml" THEN file ELSE WithSuffix(file, JsonExt)

SidecarNotWritten == <<>>

\* the export writes the metadata file of the drawn data file
WriteSidecar ==
    /\ sideOut = SidecarNotWritten
    /\ sideOut' = SavedAs(Metafile(sideIn.outfile), sideIn.meta_format)
    /\ UNCHANGED <<sideIn, notSidecarVars>>

SidecarIdle ==
    /\ sideIn = [cls |-> "ExportData", outfile |-> <<"/", "c", "/", "x">>,
                 meta_format |-> "yaml"]
    /\ sideOut = SidecarNotWritten

SidecarInit ==
    /\ sideIn \in SidecarInputs
    /\ sideOut = SidecarNotWritten

SidecarNext == WriteSidecar

(***************************************************************************)
(* The extension lookup of the object data provider                        *)
(***************************************************************************)
\* the formats a caller may request
Formats == {"irap_binary", "csv", "some_invalid"}
Extensions == {".gri", ".csv"}
Subtypes == {"RegularSurface", "Polygons"}

\* a table of allowed formats: a mapping from some formats to extensions
AllowedTables == UNION {[S -> Extensions] : S \in SUBSET Formats}

\* ValidFormats().surface
ValidFormats_surface == [f \in {"irap_binary"} |-> ".gri"]

ExtInputs == [fmt : Formats, subtype : Subtypes, validator : AllowedTables]

ExtNotRun == [kind |-> "not_run", ext |-> ""]
ExtReturned(x) == [kind |-> "return", ext |-> x]
ExtRaised(e) == [kind |-> e, ext |-> ""]

\* a lookup that falls back to the format's own name as the extension
_validate_get_ext_lenient(fmt, subtype, validator) ==
    IF fmt \in DOMAIN validator THEN ExtReturned(validator[fmt])
    ELSE ExtReturned(fmt)

\* _validate_get_ext(fmt, subtype, validator): the extension the table gives
\* for the format, ConfigurationError for a format the table does not hold
_validate_get_ext(fmt, subtype, validator) ==
    IF fmt \in DOMAIN validator THEN ExtReturned(validator[fmt])
    ELSE ExtRaised("ConfigurationError")

ValidateGetExt ==
    /\ extOut = ExtNotRun
    /\ extOut' = _validate_get_ext(extIn.fmt, extIn.subtype, extIn.validator)
    /\ UNCHANGED <<extIn, notExtVars>>

ExtIdle ==
    /\ extIn = [fmt |-> "irap_binary", subtype |-> "RegularSurface",
                validator |-> ValidFormats_surface]
    /\ extOut = ExtNotRun

ExtInit ==
    /\ extIn \in ExtInputs
    /\ extOut = ExtNotRun

ExtNext == ValidateGetExt

(***************************************************************************)
(* ExportData.export, write by write                                       *)
(***************************************************************************)
\* no call has written the path
NotWritten == 0

\* the paths of one export, none of them written
NoWrites ==
    [outfile |-> NotWritten, metafile |-> NotWritten,
     outfile_target |-> NotWritten, metafile_target |-> NotWritten]

\* no export() is running and none has run
NoCall ==
    [pc |-> "idle", call |-> 0, _config_is_valid |-> TRUE,
     absolute_path_symlink |-> FALSE, warned |-> FALSE]

\* export() up to the first write: generate_metadata() has returned, with
\* the validity of the configuration and the file block of the metadata
ExportBegin(valid, symlink) ==
    /\ xp.pc \in {"idle", "crashed"}
    /\ xp.call < MaxExportCalls
    /\ xp' = [pc |-> "write_data", call |-> xp.call + 1,
              _config_is_valid |-> valid, absolute_path_symlink |-> symlink,
              warned |-> FALSE]
    /\ UNCHANGED <<written, notStepsVars>>

\* export_file_compute_checksum_md5(obj, outfile, flag=useflag)
ExportWriteData ==
    /\ xp.pc = "write_data"
    /\ written' = [written EXCEPT !.outfile = xp.call]
    /\ xp' = [xp EXCEPT !.pc = "write_meta"]
    /\ UNCHANGED notStepsVars

\* export_metadata_file(metafile, ...) if self._config_is_valid, else the
\* warning "Data will be exported, but without metadata."
ExportWriteMeta ==
    /\ xp.pc = "write_meta"
    /\ IF xp._config_is_valid
       THEN /\ written' = [written EXCEPT !.metafile = xp.call]
            /\ xp' = [xp EXCEPT !.pc = "symlink_data"]
       ELSE /\ written' = written
            /\ xp' = [xp EXCEPT !.pc = "symlink_data", !.warned = TRUE]
    /\ UNCHANGED notStepsVars

\* if metadata["file"].get("absolute_path_symlink"):
\*     create_symlink(outfile_source, outfile_target); else the call returns
ExportSymlinkData ==
    /\ xp.pc = "symlink_data"
    /\ IF xp.absolute_path_symlink
       THEN /\ written' = [written EXCEPT !.outfile_target = xp.call]
            /\ xp' = [xp EXCEPT !.pc = "symlink_meta"]
       ELSE /\ written' = written
            /\ xp' = [xp EXCEPT !.pc = "idle"]
    /\ UNCHANGED notStepsVars

\* create_symlink(metafile, metafile_target), and the call returns
ExportSymlinkMeta ==
    /\ xp.pc = "symlink_meta"
    /\ written' = [written EXCEPT !.metafile_target = xp.call]
    /\ xp' = [xp EXCEPT !.pc = "idle"]
    /\ UNCHANGED notStepsVars

\* the process dies inside the call; what it wrote stays on disk
ExportCrash ==
    /\ xp.pc \notin {"idle", "crashed"}
    /\ xp' = [xp EXCEPT !.pc = "crashed"]
    /\ UNCHANGED <<written, notStepsVars>>

StepsIdle ==
    /\ xp = NoCall
    /\ written = NoWrites

StepsInit == StepsIdle

StepsNext ==
    \/ \E valid, symlink \in BOOLEAN : ExportBegin(valid, symlink)
    \/ ExportWriteData
    \/ ExportWriteMeta
    \/ ExportSymlinkData
    \/ ExportSymlinkMeta
    \/ ExportCrash

Init == CaseInit /\ ContentIdle /\ FmuIdle /\ AggIdle /\ EdIdle /\ FnIdle /\ CopyIdle /\ FileIdle /\ SidecarIdle /\ ExtIdle /\ StepsIdle

Next == CaseNext

\* InitializeCase, processes racing on one case root
Spec == Init /\ [][Next]_vars

\* InitializeCase, calls in sequence
SpecCaseSeq == Init /\ [][CaseSeqNext]_vars

InitContent == CaseIdle /\ ContentInit /\ FmuIdle /\ AggIdle /\ EdIdle /\ FnIdle /\ CopyIdle /\ FileIdle /\ SidecarIdle /\ ExtIdle /\ StepsIdle

\* the content validator applied to every declaration
SpecContent == InitContent /\ [][ContentNext]_vars

InitFmu == CaseIdle /\ ContentIdle /\ FmuInit /\ AggIdle /\ EdIdle /\ FnIdle /\ CopyIdle /\ FileIdle /\ SidecarIdle /\ ExtIdle /\ StepsIdle

\* schema validation applied to every fmu block
SpecFmu == InitFmu /\ [][FmuNext]_vars

InitAgg == CaseIdle /\ ContentIdle /\ FmuIdle /\ AggInit /\ EdIdle /\ FnIdle /\ CopyIdle /\ FileIdle /\ SidecarIdle /\ ExtIdle /\ StepsIdle

\* AggregatedData.generate_metadata called again and again on one instance
SpecAgg == InitAgg /\ [][AggNext]_vars

InitEd == CaseIdle /\ ContentIdle /\ FmuIdle /\ AggIdle /\ EdInit /\ FnIdle /\ CopyIdle /\ FileIdle /\ SidecarIdle /\ ExtIdle /\ StepsIdle

\* ExportData: construction, then generate_metadata() and export() calls
SpecExport == InitEd /\ [][EdNext]_vars

\* the global configurations a caller may hand to the constructor, the
\* access_ssdl overrides, and the configs FMU_GLOBAL_CONFIG may name
CfgCtorPairs ==
    {Pair("config", DictV("")), Pair("config", DictV("invalid")),
     Pair("config", DictV("valid")), Pair("access_ssdl", DictV("ssdl")),
     Pair("name", StrV("ctor"))}
CfgCtorArgs == {c \in SUBSET CfgCtorPairs : \A p, q \in c : p.key = q.key => p = q}
CfgGlobalEnvs == {NoGlobalEnv, DictV(""), DictV("valid")}
CfgCallPairs ==
    {Pair("access_ssdl", DictV("ssdl")), Pair("access_ssdl", DictV("badssdl")),
     Pair("access_ssdl", DictV("")), Pair("name", StrV("call")),
     Pair("tagname", StrV("call"))}
CfgKwargs == {k \in PairSeqs(CfgCallPairs, MaxKwargs) : DistinctKeys(k)}

CfgNext ==
    \/ \E ctor \in CfgCtorArgs, genv \in CfgGlobalEnvs :
          EDConstruct(ctor, <<>>, genv)
    \/ \E kw \in CfgKwargs : EDGenerateMetadata(MemObj, kw)
    \/ \E kw \in CfgKwargs : EDExport(MemObj, kw)

\* ExportData over the global configurations: missing, invalid or valid
\* config, with and without access_ssdl overrides
SpecExportConfig == InitEd /\ [][CfgNext]_vars

\* case paths and names a caller may give, at construction and per call
CtxCtorPairs == {Pair("casepath", StrV("/p")), Pair("name", StrV("ctor"))}
CtxCtorArgs == SUBSET CtxCtorPairs
CtxCallPairs ==
    {Pair("casepath", StrV("/q")), Pair("name", StrV("call")),
     Pair("tagname", StrV("call"))}
CtxKwargs == {k \in PairSeqs(CtxCallPairs, MaxKwargs) : DistinctKeys(k)}

CtxNext ==
    \/ \E ctor \in CtxCtorArgs : EDConstruct(ctor, <<>>, NoGlobalEnv)
    \/ \E obj \in Objs, kw \in CtxKwargs : EDGenerateMetadata(obj, kw)
    \/ \E obj \in Objs, kw \in CtxKwargs : EDExport(obj, kw)
    \/ \E dir \in WorkDirs : Chdir(dir)

InitCtx ==
    /\ CaseIdle /\ ContentIdle /\ FmuIdle /\ AggIdle /\ FnIdle /\ CopyIdle /\ FileIdle /\ SidecarIdle /\ ExtIdle /\ StepsIdle
    /\ EdNew
    /\ cwd \in WorkDirs
    /\ insideRms \in BOOLEAN

\* ExportData in its surroundings: the process changes directory between
\* calls, runs inside RMS or not, and is handed objects in memory and files
\* exported earlier
SpecExportContext == InitCtx /\ [][CtxNext]_vars

InitFn ==
    CaseIdle /\ ContentIdle /\ FmuIdle /\ AggIdle /\ EdIdle /\ FnInit /\ CopyIdle /\ FileIdle /\ SidecarIdle /\ ExtIdle /\ StepsIdle

InitCopy ==
    CaseIdle /\ ContentIdle /\ FmuIdle /\ AggIdle /\ EdIdle /\ FnIdle /\ CopyIdle /\ FileIdle /\ SidecarIdle /\ ExtIdle /\ StepsIdle

\* the three classes' generate_metadata() and export(), with a caller that
\* changes the documents it gets back
SpecCopy == InitCopy /\ [][CopyNext]_vars


InitSteps ==
    StepsInit /\ CaseIdle /\ ContentIdle /\ FmuIdle /\ AggIdle /\ EdIdle /\ FnIdle /\ CopyIdle /\ FileIdle /\ SidecarIdle /\ ExtIdle

\* export() calls one after the other, write by write, with crashes
SpecExportSteps == InitSteps /\ [][StepsNext]_vars


InitExt ==
    ExtInit /\ CaseIdle /\ ContentIdle /\ FmuIdle /\ AggIdle /\ EdIdle /\ FnIdle /\ CopyIdle /\ FileIdle /\ SidecarIdle /\ StepsIdle

\* the extension lookup on every drawn format and table of allowed formats
SpecExt == InitExt /\ [][ExtNext]_vars

InitSidecar ==
    SidecarInit /\ CaseIdle /\ ContentIdle /\ FmuIdle /\ AggIdle /\ EdIdle /\ FnIdle /\ CopyIdle /\ FileIdle /\ ExtIdle /\ StepsIdle

\* the name of the metadata file, for every drawn data file and format
SpecSidecar == InitSidecar /\ [][SidecarNext]_vars

\* settings of the constructor, the settings file and the calls that
\* decide the context, the content and the format flag
DerCtorPairs == {Pair("name", StrV("ctor")), Pair("fmu_context", StrV("case"))}
DerCtorArgs == SUBSET DerCtorPairs
DerEnvPairs ==
    {Pair("fmu_context", StrV("preprocessed")), Pair("content", StrV("depth"))}
DerEnvFiles == {e \in PairSeqs(DerEnvPairs, MaxEnvKeys) : DistinctKeys(e)}
DerCallPairs ==
    {Pair("points_fformat", StrV("csv|xtgeo")), Pair("points_fformat", StrV("csv")),
     Pair("polygons_fformat", StrV("csv|xtgeo")),
     Pair("content", StrV("bogus")), Pair("content", StrV("depth")),
     Pair("fmu_context", StrV("case"))}
DerKwargs == {k \in PairSeqs(DerCallPairs, MaxKwargs) : DistinctKeys(k)}

DerNext ==
    \/ \E ctor \in DerCtorArgs, env \in DerEnvFiles :
          EDConstruct(ctor, env, NoGlobalEnv)
    \/ \E kw \in DerKwargs : EDGenerateMetadata(MemObj, kw)
    \/ \E kw \in DerKwargs : EDExport(MemObj, kw)
    \/ \E dir \in WorkDirs : Chdir(dir)

\* ExportData over the settings from which the context, the content and the
\* format flag are derived, in a process that changes directory
SpecExportDerived == InitEd /\ [][DerNext]_vars

\* overrides a caller passes again and again to one instance, some of them
\* of a wrong type
OvCtorPairs ==
    {Pair("name", StrV("ctor")), Pair("tagname", StrV("ctor")),
     Pair("subfolder", StrV("ctor"))}
OvCtorArgs == SUBSET OvCtorPairs
OvCallPairs ==
    {Pair("name", StrV("call")), Pair("tagname", StrV("call")),
     Pair("name", IntV("call")), Pair("table_index", ListV("call"))}
OvKwargs == {k \in PairSeqs(OvCallPairs, MaxKwargs) : DistinctKeys(k)}

OvNext ==
    \/ \E ctor \in OvCtorArgs : EDConstruct(ctor, <<>>, NoGlobalEnv)
    \/ \E kw \in OvKwargs : EDGenerateMetadata(MemObj, kw)
    \/ \E kw \in OvKwargs : EDExport(MemObj, kw)

\* ExportData over sequences of calls with keyword overrides
SpecExportOverrides == InitEd /\ [][OvNext]_vars

InitFile ==
    FileInit /\ CaseIdle /\ ContentIdle /\ FmuIdle /\ AggIdle /\ EdIdle /\ FnIdle /\ CopyIdle /\ SidecarIdle /\ ExtIdle /\ StepsIdle

\* schema validation of every drawn file block
SpecFile == InitFile /\ [][FileNext]_vars

\* _construct_filename on every drawn input
SpecFilename == InitFn /\ [][FnNext]_vars

(***************************************************************************)
(* C1: when two processes run InitializeCase.export() concurrently on a    *)
(* case root without fmu_case.yml, two different case UUIDs are never both *)
(* written to fmu_case.yml.                                                *)
(***************************************************************************)
C1_OneUuidWritten == Cardinality(everWritten) <= 1

C6_Original ==
    (cvOut # NotRun /\ cvIn.kind = "str" /\ cvIn.name \in AllowedContentNames)
        => cvOut = Returned(cvIn.name, "None")

(***************************************************************************)
(* C6 (amended): a plain-string taxonomy name that needs no extra fields   *)
(* is returned as (name, None); a plain-string taxonomy name that needs    *)
(* extra fields is rejected with a ValidationError.                        *)
(***************************************************************************)
C6_PlainTaxonomyString ==
    (cvOut # NotRun /\ cvIn.kind = "str" /\ cvIn.name \in AllowedContentNames)
        => IF cvIn.name \in ContentsWithExtra
           THEN cvOut = Raised("ValidationError")
           ELSE cvOut = Returned(cvIn.name, "None")

\* the validator has returned a plain taxonomy string unchanged
C6_Witness == cvIn = ContentStr("depth") /\ cvOut = Returned("depth", "None")

\* the content name a declaration gives: the string, or the mapping's first key
DeclaredName(c) ==
    IF c.kind = "str" THEN c.name ELSE c.items[1].key

\* the declaration names a content: a string, or a mapping with a key
NamesContent(c) == c.kind = "str" \/ (c.kind = "dict" /\ c.items # <<>>)

(***************************************************************************)
(* C7 (as stated): a declaration whose content name is not in the          *)
(* taxonomy, given as a plain string or as the key of a mapping with any   *)
(* value, is rejected with a ValidationError.                              *)
(***************************************************************************)
C7_Original ==
    (/\ cvOut # NotRun
     /\ \/ cvIn.kind = "str"
        \/ cvIn.kind = "dict" /\ Len(cvIn.items) = 1
     /\ DeclaredName(cvIn) \notin AllowedContentNames)
        => cvOut = Raised("ValidationError")

(***************************************************************************)
(* C7 (amended): a declaration whose content name is neither in the        *)
(* taxonomy nor the sentinel "unset" is rejected: with a ValidationError   *)
(* when it is a plain string or the key of a mapping whose value is a      *)
(* mapping, with a ValueError when the mapping's value is not a mapping.   *)
(***************************************************************************)
C7_UnknownContentRejected ==
    (/\ cvOut # NotRun
     /\ NamesContent(cvIn)
     /\ DeclaredName(cvIn) \notin AllowedContentNames \cup {"unset"})
        => IF cvIn.kind = "dict" /\ cvIn.items[1].val = "not_a_dict"
           THEN cvOut = Raised("ValueError")
           ELSE cvOut = Raised("ValidationError")

\* a mapping keyed by an unknown content name has been rejected
C7_Witness ==
    /\ cvIn = ContentDict(<<[key |-> "bogus", val |-> "empty_dict"]>>)
    /\ cvOut = Raised("ValidationError")

(***************************************************************************)
(* C8: a content declaration given as a mapping is accepted only if it has *)
(* exactly one key; with zero keys or more than one key validation fails.  *)
(***************************************************************************)
C8_OnlySingleKeyMappings ==
    (cvOut # NotRun /\ cvIn.kind = "dict" /\ Len(cvIn.items) # 1)
        => cvOut.status # "ok"

\* a mapping with two keys has been validated
C8_Witness == cvOut # NotRun /\ cvIn.kind = "dict" /\ Len(cvIn.items) = 2
\* the raw block sets the key: it is there and is not None
IsSet(v) == v \notin {"absent", "none"}

(***************************************************************************)
(* C9: validating an fmu block in which both aggregation and realization   *)
(* are set fails, so no validated document holds both.                     *)
(***************************************************************************)
C9_AggregationXorRealization ==
    (/\ fmuOut # "not_run"
     /\ IsSet(fmuIn.aggregation) /\ IsSet(fmuIn.realization))
        => fmuOut = "ValidationError"

\* a block whose aggregation and realization would each validate alone, and
\* whose other fields validate, has been rejected
C9_Witness ==
    /\ fmuIn.aggregation = "valid" /\ fmuIn.realization = "valid"
    /\ fmuIn.case = "valid" /\ fmuIn.context = "valid"
    /\ fmuOut = "ValidationError"
\* the orderings of a list
Orderings(s) ==
    {[i \in 1..Len(s) |-> s[f[i]]] : f \in Permutations(1..Len(s))}

(***************************************************************************)
(* C10: an aggregation id derived from the source documents' realization   *)
(* UUIDs is the same for every ordering of those documents: whenever a     *)
(* call derives the id, the id it stores is the one any permutation of the *)
(* UUIDs it collected would give.                                          *)
(***************************************************************************)
C10_IdIgnoresOrder ==
    aggLast.derived =>
        \A o \in Orderings(aggLast.uuids) :
            agg.aggregation_id = _generate_aggr_uuid(o)

\* an id has been derived from two documents that are not in sorted order
C10_Witness ==
    /\ aggLast.derived /\ aggLast.outcome = "ok"
    /\ Len(aggLast.uuids) = 2
    /\ LexLess(aggLast.uuids[2], aggLast.uuids[1])
    /\ agg._metadata.id = uuid_from_string(aggLast.uuids[2] \o aggLast.uuids[1])

\* C3: a generate_metadata() or export() call whose keyword overrides hold
\* 'config' fails with a ValueError and leaves every attribute of the
\* instance as it was before the call
C3_ConfigOverrideRejected ==
    [][\A kw \in Kwargs :
          ("config" \in Keys(kw)
              /\ (EDGenerateMetadata(MemObj, kw) \/ EDExport(MemObj, kw)))
          => (edLast'.outcome = "ValueError" /\ ed' = ed)]_vars

\* what the class documents as the value of a key nobody sets
BuiltinDefault(key) ==
    IF key = "vertical_domain" THEN DictV("depth: msl") ELSE Default(key)

\* the value the constructor-time layers give a key: the settings file's if
\* it sets the key, else the constructor argument, else the built-in default
Layered(ctor, env, key) ==
    IF key \in Keys(env) THEN KwGet(env, key, NoneV)
    ELSE IF \E q \in ctor : q.key = key
    THEN (CHOOSE q \in ctor : q.key = key).val
    ELSE BuiltinDefault(key)

\* values are compared with a context name standing for its enum member
Norm(key, value) ==
    IF key = "fmu_context" /\ FmuContextKnown(value)
    THEN FmuContext_get(value) ELSE value

\* C4: the value in effect for a key is the one of the highest layer that
\* sets it, default < constructor < settings file < call-time override: after
\* a successful construction every key holds the settings file's value, else
\* the constructor's, else the default; after a successful call every key
\* holds the call's value if the call passed one, else what it held before
C4_LayerPrecedence ==
    [][/\ \A ctor \in CtorArgs, env \in EnvFiles :
             (EDConstruct(ctor, env, NoGlobalEnv) /\ epc' = "ready")
             => \A k \in PublicKeys :
                   Norm(k, ed'[k]) = Norm(k, Layered(ctor, env, k))
       /\ \A kw \in Kwargs :
             ((EDGenerateMetadata(MemObj, kw) \/ EDExport(MemObj, kw))
                 /\ edLast'.outcome = "ok")
             => \A k \in PublicKeys :
                   Norm(k, ed'[k]) = Norm(k, KwGet(kw, k, ed[k]))]_vars

\* the key is a declared public setting
DeclaredPublic(key) == key \in Annotations /\ ~StartsWithUnderscore(key)

\* the override must be rejected: its key is not a declared public setting,
\* or its value is not of the declared type (complex types are not checked)
MustReject(q) ==
    \/ ~DeclaredPublic(q.key)
    \/ ("typing" \notin ValidCheck(q.key) /\ q.val.ty \notin ValidCheck(q.key))

\* C5: an override that must be rejected ends the operation with a
\* ValidationError and its value is not assigned: a call (one that does not
\* also pass 'config', which C3 covers) leaves the key without the rejected
\* value, a construction from such a settings file yields no instance
C5_BadOverrideRejected ==
    [][/\ \A kw \in Kwargs :
             ("config" \notin Keys(kw)
                 /\ (EDGenerateMetadata(MemObj, kw) \/ EDExport(MemObj, kw)))
             => \A i \in 1..Len(kw) :
                   MustReject(kw[i])
                   => /\ edLast'.outcome = "ValidationError"
                      /\ ed'[kw[i].key] # kw[i].val
       /\ \A ctor \in CtorArgs, env \in EnvFiles :
             EDConstruct(ctor, env, NoGlobalEnv)
             => \A i \in 1..Len(env) :
                   MustReject(env[i])
                   => /\ edLast'.outcome = "ValidationError"
                      /\ epc' = "failed"]_vars

\* C11: when the caller never supplied an aggregation id, the document of
\* every successful generate_metadata call carries as fmu.aggregation.id the
\* hash of the sorted concatenation of the realization UUIDs collected from
\* the source documents of that call
C11_IdFromSourcesOfTheCall ==
    (aggLast.outcome = "ok" /\ agg.aggregation_id.src # "given")
        => agg._metadata.id = uuid_from_string(join(sorted(aggLast.uuids)))

(***************************************************************************)
(* C12: the document of a successful AggregatedData.generate_metadata has  *)
(* no fmu.realization block, an fmu.aggregation block with the given       *)
(* operation, the realization ids of all source documents in input order   *)
(* and the aggregation id, and fmu.context.stage "iteration".              *)
(***************************************************************************)
C12_AggregatedDocShape ==
    aggLast.outcome = "ok" =>
        /\ agg._metadata.nonempty
        /\ ~agg._metadata.realization
        /\ agg._metadata.operation = agg.operation
        /\ agg._metadata.realization_ids = RealIds(agg.source_metadata)
        /\ agg._metadata.id = agg.aggregation_id
        /\ agg._metadata.stage = "iteration"

\* a successful call over two source documents whose ids are not ascending
C12_Witness ==
    /\ aggLast.outcome = "ok"
    /\ Len(agg.source_metadata) = 2
    /\ agg.source_metadata[1].rid > agg.source_metadata[2].rid
    /\ agg._metadata.realization_ids =
          <<agg.source_metadata[1].rid, agg.source_metadata[2].rid>>

(***************************************************************************)
(* C13: AggregatedData.generate_metadata produces no document and fails    *)
(* with a ValidationError if any source document of the call, not only the *)
(* first, lacks fmu.realization.id or fmu.realization.uuid; it produces no *)
(* document and fails with a ValueError if operation is empty (the         *)
(* ValidationError for the documents, itself a kind of ValueError, comes   *)
(* first when both hold).                                                  *)
(***************************************************************************)
C13_AggregationErrors ==
    [][\A kw \in AggKwargs :
          AggGenerateMetadata(kw) =>
             LET a1 == Agg_update_settings(agg, kw)
                 lacking == \E i \in 1..Len(a1.source_metadata) :
                                ~a1.source_metadata[i].complete
             IN /\ lacking =>
                      /\ aggLast'.outcome = "ValidationError"
                      /\ agg'._metadata = agg._metadata
                /\ a1.operation = "" =>
                      /\ aggLast'.outcome =
                            IF lacking THEN "ValidationError" ELSE "ValueError"
                      /\ agg'._metadata = agg._metadata]_vars

\* a call failed on a document that is not the first, and left no document
C13_WitnessLaterDocument ==
    /\ aggLast.outcome = "ValidationError"
    /\ Len(agg.source_metadata) = 2
    /\ agg.source_metadata[1].complete /\ ~agg.source_metadata[2].complete
    /\ ~agg._metadata.nonempty

(***************************************************************************)
(* C15: AggregatedData.generate_metadata never changes its source          *)
(* documents: after a call, successful or failed, source_metadata is the   *)
(* list the call worked on (the instance's, or the one passed as keyword   *)
(* override), every document as it was, the template with its             *)
(* fmu.realization block.                                                  *)
(***************************************************************************)
C15_SourcesNotMutated ==
    [][\A kw \in AggKwargs :
          AggGenerateMetadata(kw) =>
             agg'.source_metadata = Agg_update_settings(agg, kw).source_metadata
      ]_vars

\* a document was made from a template, and the template still has its
\* fmu.realization block
C15_Witness ==
    /\ aggLast.outcome = "ok"
    /\ agg._metadata.nonempty /\ ~agg._metadata.realization
    /\ agg.source_metadata[1].complete
    /\ DocBlocks(agg.source_metadata[1]).realization

\* the segments of a path string, split at the separators
RECURSIVE SplitPath(_)
SplitPath(p) ==
    LET i == LastIndex(p, "/") IN
    IF i = 0 THEN <<p>>
    ELSE Append(SplitPath(SubSeq(p, 1, i - 1)), SubSeq(p, i + 1, Len(p)))

\* the segments joined with separators
RECURSIVE JoinPath(_)
JoinPath(segs) ==
    IF Len(segs) = 1 THEN segs[1]
    ELSE segs[1] \o Slash \o JoinPath(Tail(segs))

\* the path the claim describes: the folders of the template's path without
\* the realization folder, then <stem>--<operation>[--<tagname>] with the
\* template's extension
ClaimedPath(p, in) ==
    LET segs == SplitPath(p)
        last == segs[Len(segs)]
        NotRealization(seg) == seg # in.realiname
        folders == SelectSeq(SubSeq(segs, 1, Len(segs) - 1), NotRealization)
        tag == IF in.tagname = <<>> THEN <<>> ELSE <<"-", "-">> \o in.tagname
        newname == NameStem(last) \o <<"-", "-">> \o in.operation \o tag
                       \o NameSuffix(last)
    IN JoinPath(Append(folders, newname))

(***************************************************************************)
(* C14: the aggregated document's file.relative_path, and absolute_path    *)
(* when the template has one, is the template's path with the              *)
(* realization-folder segment removed and the file stem replaced by        *)
(* <template stem>--<operation>, followed by --<tagname> when a tagname is *)
(* set, with the template's extension kept. Stated here for an instance    *)
(* without name and casepath: with a name the code takes the name for the  *)
(* stem, with a casepath it takes the casepath for the root.               *)
(***************************************************************************)
C14_AggregatedFilename ==
    (fnOut.status = "ok" /\ fnIn.name = <<>> /\ fnIn.casepath = NoPath)
        => /\ fnOut.relname = ClaimedPath(fnIn.relpath, fnIn)
           /\ fnIn.abspath # NoPath
                 => fnOut.absname = ClaimedPath(fnIn.abspath, fnIn)
           /\ fnIn.abspath = NoPath => fnOut.absname = NoPath

\* C17: with a missing, empty or invalid global configuration, constructing
\* ExportData and the settings and config handling of generate_metadata end
\* without raising, whatever the other settings are (a non-empty access_ssdl
\* included), and the validity flag is false afterwards
C17_BadConfigRecoverable ==
    edLast.op \in {"init", "generate_metadata"}
        => /\ edLast.outcome = "ok"
           /\ ed.config.v # "valid" => ed["_config_is_valid"] = BoolV("False")

\* C16: every export writes the data file, writes the metadata file beside
\* it exactly when the global configuration is valid at that call, and
\* warns that there is no metadata exactly when it is not
C16_ExportWritesData ==
    edLast.op = "export"
        => /\ edLast.data
           /\ edLast.sidecar <=> ed["_config_is_valid"] = BoolV("True")
           /\ edLast.warned <=> ed["_config_is_valid"] = BoolV("False")
           /\ ed["_config_is_valid"] = BoolV("True")
                <=> (ed.config.v = "valid"
                     /\ ed["config.access.ssdl"].v # "badssdl")

\* the working directory and the case root an instance holds are the ones
\* of the process now
ContextResolved ==
    /\ ed["_pwd"] = PathV(cwd)
    /\ ed.casepath.ty = "str" => ed["_rootpath"] = PathV(ed.casepath.v)
    /\ (ed.casepath = NoneV /\ insideRms) => ed["_rootpath"] = PathV(TwoUp(cwd))
    /\ (ed.casepath = NoneV /\ ~insideRms) => ed["_rootpath"] = PathV(cwd)

CallerValues == {StrV("ctor"), StrV("call")}

\* C19: a generate_metadata call on the path of a file exported earlier
\* fails with a ValidationError when the file does not exist or its
\* metadata has no _preprocessed marker; otherwise name, tagname and
\* subfolder each hold afterwards the value the caller set, or, when the
\* caller set none, the value in the marker of that file
C19_BackfillFromTheFile ==
    (edLast.op = "generate_metadata" /\ edLast.obj \in FilePaths)
        => IF ~FileExists(edLast.obj) \/ ~HasMarker(edLast.obj)
           THEN edLast.outcome = "ValidationError"
           ELSE /\ edLast.outcome = "ok"
                /\ \A key \in {"name", "tagname", "subfolder"} :
                      \/ ed[key] \in CallerValues
                      \/ ed[key] = StrV(Marker(edLast.obj, key))

\* C20: the document generate_metadata returns is another object than the
\* one the instance stores, for ExportData, InitializeCase and
\* AggregatedData, and no change the caller makes to it shows in the
\* document the instance holds or in the one written to the metadata file
C20_ReturnedDocumentIsACopy ==
    \A cls \in Classes :
        /\ (inst[cls] # NoRef /\ ret[cls] # NoRef) => inst[cls] # ret[cls]
        /\ inst[cls] # NoRef => ~heap[inst[cls]].edited
        /\ ~disk[cls].edited

\* every class has returned a document, the caller has changed all three,
\* and every class has written its metadata file
C20_Witness ==
    \A cls \in Classes :
        /\ ret[cls] # NoRef /\ heap[ret[cls]].edited
        /\ inst[cls] # NoRef
        /\ disk[cls] # NoDoc

\* C21: schema validation of a file block fails whenever relative_path,
\* absolute_path or one of the two symlink paths holds a character that is
\* not ASCII
C21_NonAsciiPathRejected ==
    (fileOut # "not_run"
        /\ \E key \in PathKeys :
              /\ fileIn[key] # AbsentPath
              /\ \E i \in 1..Len(fileIn[key]) : fileIn[key][i] > 127)
        => fileOut = "ValidationError"

C23_ContextAndContentResolved ==
    (epc = "ready" /\ edLast.outcome = "ok"
        /\ edLast.op \in {"init", "generate_metadata", "export"})
        => /\ ed.fmu_context.ty = "FmuContext"
           /\ ed["_usecontent"].v \in AllowedContentNames \cup {"unset"}
           /\ ed.content = NoneV => ed["_usecontent"] = StrV("unset")
           /\ ed.content.ty = "str" => ed["_usecontent"] = StrV(ed.content.v)

\* C24: after every generate_metadata call, the format flag is "xtgeo"
\* exactly when the points format or the polygons format is "csv|xtgeo" now
C24_FormatFlagFollowsFormats ==
    (edLast.op \in {"generate_metadata", "export"} /\ edLast.outcome = "ok")
        => (ed["_usefmtflag"] = StrV("xtgeo")
              <=> \/ ed.points_fformat = StrV("csv|xtgeo")
                  \/ ed.polygons_fformat = StrV("csv|xtgeo"))

\* C26: a generate_metadata call that fails while the content setting in
\* effect is not valid leaves the working directory, the case root and the
\* stored metadata document as they were before the call: it raises before
\* the context is resolved again and before the metadata is assembled
C26_InvalidContentFailsFast ==
    [][(/\ edLast'.op = "generate_metadata"
        /\ edLast'.outcome # "ok"
        /\ ed'.content.ty = "str"
        /\ ed'.content.v \notin AllowedContentNames)
        => /\ ed'["_pwd"] = ed["_pwd"]
           /\ ed'["_rootpath"] = ed["_rootpath"]
           /\ ed'["_metadata"] = ed["_metadata"]]_vars

\* a call with a content that is not valid, made after the process moved:
\* the instance still holds the directory and the document of the call
\* before
C26_Witness ==
    /\ edLast.op = "generate_metadata" /\ edLast.outcome = "ValidationError"
    /\ ed.content = StrV("bogus")
    /\ ed["_metadata"] = DictV("doc")
    /\ ed["_pwd"] # PathV(cwd)

\* C28: after a successful generate_metadata() or export() call every key
\* holds the value the call passed, or, when the call did not pass the key,
\* the value it held before the call: an override of an earlier call stays
\* in effect and the key does not go back to the constructor's value
C28_OverridePersists ==
    [][\A kw \in OvKwargs :
          ((EDGenerateMetadata(MemObj, kw) \/ EDExport(MemObj, kw))
              /\ edLast'.outcome = "ok")
          => \A k \in {"name", "tagname", "table_index"} :
                ed'[k] = IF k \in Keys(kw) THEN KwGet(kw, k, NoneV) ELSE ed[k]]_vars

\* the constructor gave a name, and calls of which none passes all three
\* keys have left the instance with all three overridden
C28_Witness ==
    /\ edLast.outcome = "ok" /\ edLast.op = "generate_metadata"
    /\ ed.name = StrV("call") /\ ed.tagname = StrV("call")
    /\ ed.table_index = ListV("call")

\* the position of the first override of a call that must be rejected, 0
\* when there is none
FirstRejected(kw) ==
    IF \E i \in 1..Len(kw) : MustReject(kw[i])
    THEN CHOOSE i \in 1..Len(kw) :
            MustReject(kw[i]) /\ \A j \in 1..(i - 1) : ~MustReject(kw[j])
    ELSE 0

\* C29: in a call with an override that must be rejected, the overrides
\* before the first such one are assigned and stay assigned after the
\* error, that override and those after it are not assigned, and the
\* resolved content and fmu_context are as before the call
C29_RejectedOverrideStopsTheMerge ==
    [][\A kw \in OvKwargs :
          ((EDGenerateMetadata(MemObj, kw) \/ EDExport(MemObj, kw))
              /\ FirstRejected(kw) > 0)
          => LET before == SubSeq(kw, 1, FirstRejected(kw) - 1)
             IN /\ edLast'.outcome = "ValidationError"
                /\ \A k \in PublicKeys :
                      ed'[k] = IF k \in Keys(before) THEN KwGet(before, k, NoneV)
                               ELSE ed[k]
                /\ ed'["_usecontent"] = ed["_usecontent"]]_vars


C25_ExtensionLookup ==
    extOut # ExtNotRun =>
        /\ extIn.fmt \in DOMAIN extIn.validator
              => /\ extOut.kind = "return"
                 /\ extOut.ext = extIn.validator[extIn.fmt]
        /\ extIn.fmt \notin DOMAIN extIn.validator
              => extOut = ExtRaised("ConfigurationError")
        /\ (extIn.validator = ValidFormats_surface /\ extIn.fmt = "irap_binary")
              => extOut = ExtReturned(".gri")

\* the lookup of irap_binary for a RegularSurface gave ".gri"
C25_Witness ==
    /\ extIn = [fmt |-> "irap_binary", subtype |-> "RegularSurface",
                validator |-> ValidFormats_surface]
    /\ extOut = ExtReturned(".gri")

\* the lookup of a format outside the surface table raised
C25_WitnessRejected ==
    /\ extIn.validator = ValidFormats_surface /\ extIn.fmt = "some_invalid"
    /\ extOut = ExtRaised("ConfigurationError")


(***************************************************************************)
(* C27: within one ExportData.export() call the data file is written       *)
(* before the metadata file and the symlinks are created only after both:  *)
(* at every point of the call, and after a crash, the metadata file        *)
(* written by this call exists only if the data file written by this call  *)
(* exists, and a symlink created by this call exists only if both do.      *)
(***************************************************************************)
C27_DataThenSidecarThenSymlinks ==
    xp.call > 0 =>
        /\ written.metafile = xp.call => written.outfile = xp.call
        /\ (written.outfile_target = xp.call \/ written.metafile_target = xp.call)
              => (written.outfile = xp.call /\ written.metafile = xp.call)

\* the part of C27 about the two files alone
C27_SidecarOnlyWithData ==
    xp.call > 0 => (written.metafile = xp.call => written.outfile = xp.call)

\* a crash between the two writes: the data file of this call without its
\* metadata file
C27_OrphanedDataFile ==
    /\ xp.pc = "crashed" /\ xp._config_is_valid
    /\ written.outfile = xp.call /\ written.metafile # xp.call

====
